---------------------------- MODULE Spec2Model ----------------------------
(***************************************************************************)
(* Model of the three OCT-to-TIFF batch converters                         *)
(*   scripts/convert_vol_to_tiff.py  (read_vol_file, log_volume,           *)
(*                                    process_vol_files)                   *)
(*   scripts/convert_e2e_to_tiff.py  (process_e2e_files)                   *)
(*   scripts/convert_fda_to_tiff.py  (process_fda_files)                   *)
(*                                                                         *)
(* A .vol file is a sequence of bytes (0..255).  Header integers are       *)
(* decoded little-endian two's complement, pixel values by the IEEE-754    *)
(* binary32 field layout.  Python's slicing, file.seek/file.read and       *)
(* struct.unpack are modelled with the conditions under which they raise.  *)
(*                                                                         *)
(* A decoded pixel is a record [cls, num, den]:                            *)
(*   "fin"   the rational num/den (den > 0, reduced)                       *)
(*   "big"   a finite binary32 value >= 3.40e38 (the format's sentinel)    *)
(*   "pinf", "ninf", "nan"   the IEEE special values                       *)
(*   "root4" the fourth root of num/den when it is not rational            *)
(*   "bits"  any other finite binary32 value; num is its place in the      *)
(*           order of the finite values (sign * (exponent field * 2^23 +   *)
(*           mantissa)), so that comparisons stay exact                    *)
(*   "other" the result of arithmetic on a value that is not "fin"         *)
(***************************************************************************)
EXTENDS Integers, Sequences, FiniteSets, TLC

VARIABLES converter, input_tree, prior_run, walk_stack, root, files, pc,
          open_handles, out_dirs, artifacts, console, decode_calls, last

vars == <<converter, input_tree, prior_run, walk_stack, root, files, pc,
          open_handles, out_dirs, artifacts, console, decode_calls, last>>

(***************************************************************************)
(* Arithmetic helpers                                                      *)
(***************************************************************************)
Min2(a, b) == IF a <= b THEN a ELSE b

Max2(a, b) == IF a >= b THEN a ELSE b

Abs(a) == IF a < 0 THEN -a ELSE a

RECURSIVE Pow2(_)
Pow2(k) == IF k <= 0 THEN 1 ELSE 2 * Pow2(k - 1)

RECURSIVE Gcd(_, _)
Gcd(a, b) == IF b = 0 THEN a ELSE Gcd(b, a % b)

\* floor(log2(n)) for n >= 1
RECURSIVE Log2(_)
Log2(n) == IF n <= 1 THEN 0 ELSE 1 + Log2(n \div 2)

(***************************************************************************)
(* Pixel values                                                            *)
(***************************************************************************)
Special(c) == [cls |-> c, num |-> 0, den |-> 1]

Rat(n, d) ==
    LET g == Gcd(Abs(n), Abs(d))
        s == IF d < 0 THEN -1 ELSE 1
    IN  [cls |-> "fin", num |-> s * (n \div g), den |-> s * (d \div g)]

Fin(n) == [cls |-> "fin", num |-> n, den |-> 1]

Big == Special("big")

PInf == Special("pinf")

NInf == Special("ninf")

NaN == Special("nan")

Other == Special("other")

\* a finite binary32 value the model does not keep as a rational
Bits(key) == [cls |-> "bits", num |-> key, den |-> 1]

\* the place of a value n/16 (n # 0, |n| < 2^16) in the order of the finite
\* binary32 values
OrderKey16(n) ==
    (IF n < 0 THEN -1 ELSE 1)
      * ((Log2(Abs(n)) + 123) * 8388608
           + Abs(n) * Pow2(23 - Log2(Abs(n))) - 8388608)

\* the place of a decoded value in the order of the finite binary32 values
OrderKey(v) ==
    IF v.cls = "bits" THEN v.num
    ELSE IF v.num = 0 THEN 0
    ELSE OrderKey16(v.num * (16 \div v.den))

\* a < b on floating-point values; every comparison with NaN is false
FLess(a, b) ==
    CASE a.cls = "nan" \/ b.cls = "nan" -> FALSE
      [] a.cls = "other" \/ b.cls = "other" -> FALSE
      [] a.cls = "ninf" -> b.cls # "ninf"
      [] b.cls = "ninf" -> FALSE
      [] b.cls = "pinf" -> a.cls # "pinf"
      [] a.cls = "pinf" -> FALSE
      [] b.cls = "big" -> a.cls # "big"
      [] a.cls = "big" -> FALSE
      [] a.cls = "bits" \/ b.cls = "bits" -> OrderKey(a) < OrderKey(b)
      [] OTHER -> a.num * b.den < b.num * a.den

FLeq(a, b) == FLess(a, b) \/ (a = b /\ a.cls \notin {"nan", "other"})

\* a - b in IEEE arithmetic
FSub(a, b) ==
    CASE a.cls = "nan" \/ b.cls = "nan" -> NaN
      [] a.cls = "pinf" -> IF b.cls = "pinf" THEN NaN ELSE PInf
      [] a.cls = "ninf" -> IF b.cls = "ninf" THEN NaN ELSE NInf
      [] b.cls = "pinf" -> NInf
      [] b.cls = "ninf" -> PInf
      [] a.cls = "fin" /\ b.cls = "fin" ->
            Rat(a.num * b.den - b.num * a.den, a.den * b.den)
      [] OTHER -> Other

\* a / b in IEEE arithmetic, for a divisor that is positive (max > min)
FDiv(a, b) ==
    CASE a.cls = "nan" \/ b.cls = "nan" -> NaN
      [] a.cls \in {"pinf", "ninf"} ->
            IF b.cls \in {"pinf", "ninf"} THEN NaN ELSE a
      [] b.cls \in {"pinf", "ninf"} ->
            IF a.cls = "fin" THEN Fin(0) ELSE Other
      [] a.cls = "fin" /\ b.cls = "fin" /\ b.num # 0 ->
            Rat(a.num * b.den, a.den * b.num)
      [] OTHER -> Other

(***************************************************************************)
(* Bytes: Python slicing, struct.unpack, file seek/read                    *)
(***************************************************************************)
\* Python's s[lo:hi] on a 0-based byte string (negative indices count from
\* the end and are clamped)
PySlice(s, lo, hi) ==
    LET n == Len(s)
        a == IF lo < 0 THEN Max2(lo + n, 0) ELSE Min2(lo, n)
        b == IF hi < 0 THEN Max2(hi + n, 0) ELSE Min2(hi, n)
    IN  IF a < b THEN SubSeq(s, a + 1, b) ELSE <<>>

\* struct.unpack('i', b)[0] for a 4-byte string b (little-endian int32)
UnpackInt(b) ==
    b[1] + 256 * b[2] + 65536 * b[3]
      + 16777216 * (IF b[4] >= 128 THEN b[4] - 256 ELSE b[4])

\* the smallest binary32 mantissa, at exponent field 254, whose value is
\* >= 3.40e+38  (0x7F7FC99F = 3.4000001549684603e+38)
SentinelMantissa == 8374687

\* struct.unpack('f', b)[0] for a 4-byte string b (little-endian binary32)
UnpackFloat(b) ==
    LET sign == b[4] \div 128
        expo == (b[4] % 128) * 2 + b[3] \div 128
        mant == (b[3] % 128) * 65536 + b[2] * 256 + b[1]
        sg == IF sign = 1 THEN -1 ELSE 1
    IN  CASE expo = 255 /\ mant # 0 -> NaN
          [] expo = 255 /\ mant = 0 -> IF sign = 1 THEN NInf ELSE PInf
          [] expo = 0 /\ mant = 0 -> Fin(0)
          [] expo = 254 /\ sign = 0 /\ mant >= SentinelMantissa -> Big
          [] expo >= 123 /\ expo <= 138
               /\ (8388608 + mant) % Pow2(146 - expo) = 0 ->
                Rat(sg * ((8388608 + mant) \div Pow2(146 - expo)), 16)
          [] OTHER -> Bits(sg * (expo * 8388608 + mant))

\* struct.unpack('f' * count, b): defined only when Len(b) = 4 * count
UnpackFloats(b, count) ==
    [k \in 1..count |-> UnpackFloat(SubSeq(b, 4 * k - 3, 4 * k))]

\* rawfile.seek(pos); rawfile.read(n): n = -1 reads to the end of the file
FileRead(bytes, pos, n) ==
    IF n < 0 THEN PySlice(bytes, pos, Len(bytes))
    ELSE PySlice(bytes, pos, pos + n)

(***************************************************************************)
(* numpy helpers on a volume: a sequence of NumBscans slices, each a       *)
(* sequence of SizeZ rows of SizeX pixels                                  *)
(***************************************************************************)
\* np.ones([n, z, x]) * -1.0
FilledVolume(n, z, x) == [i \in 1..n |-> [r \in 1..z |-> [c \in 1..x |-> Fin(-1)]]]

\* np.array(flat).reshape((z, x)): row-major
Reshape(flat, z, x) == [r \in 1..z |-> [c \in 1..x |-> flat[(r - 1) * x + c]]]

Elements(vol) ==
    UNION {UNION {{vol[i][r][c] : c \in DOMAIN vol[i][r]} : r \in DOMAIN vol[i]} :
           i \in DOMAIN vol}

\* np.min / np.max: NaN propagates
np_min(vol) ==
    LET E == Elements(vol)
    IN  IF NaN \in E THEN NaN ELSE CHOOSE m \in E : \A e \in E : FLeq(m, e)

np_max(vol) ==
    LET E == Elements(vol)
    IN  IF NaN \in E THEN NaN ELSE CHOOSE m \in E : \A e \in E : FLeq(e, m)

(***************************************************************************)
(* read_vol_file                                                           *)
(***************************************************************************)
\* Header[off:off+4] of the bytes returned by rawfile.read(2048)
HeaderField(bytes, off) == PySlice(FileRead(bytes, 0, 2048), off, off + 4)

\* lines 32 and 35: SloImageSize and BsBlkSize
Derived(X, N, Z, XS, YS, H) ==
    [SizeX |-> X, NumBscans |-> N, SizeZ |-> Z, SizeXSlo |-> XS,
     SizeYSlo |-> YS, SloImageSize |-> XS * YS, BscanHdrSize |-> H,
     BsBlkSize |-> H + X * Z * 4]

\* lines 26-35: the geometry fields and the derived sizes
ParseHeader(bytes) ==
    Derived(UnpackInt(HeaderField(bytes, 12)), UnpackInt(HeaderField(bytes, 16)),
            UnpackInt(HeaderField(bytes, 20)), UnpackInt(HeaderField(bytes, 48)),
            UnpackInt(HeaderField(bytes, 52)), UnpackInt(HeaderField(bytes, 100)))

NoHeader ==
    [SizeX |-> 0, NumBscans |-> 0, SizeZ |-> 0, SizeXSlo |-> 0, SizeYSlo |-> 0,
     SloImageSize |-> 0, BscanHdrSize |-> 0, BsBlkSize |-> 0]

\* a variant of line 45 that leaves the SLO image out of the offset; the slice
\* order property tells it from the code
OffsetWithoutSlo(h, i) == 2048 + i * h.BsBlkSize

\* line 45: OffsetNow for slice i
BscanOffset(h, i) == 2048 + h.SloImageSize + i * h.BsBlkSize

\* line 49: Bscan[BscanHdrSize : SizeX * SizeZ * 4 + BscanHdrSize]
BscanPayload(h, Bscan) ==
    PySlice(Bscan, h.BscanHdrSize, h.SizeX * h.SizeZ * 4 + h.BscanHdrSize)

LoopResult(ok, exc, vol) == [ok |-> ok, exc |-> exc, vol |-> vol]

\* line 48: BscanVol[i, ...] = np.array(struct.unpack(...)).reshape(...)
StoreSlice(h, vol, i, payload) ==
    [vol EXCEPT ![i + 1] =
        Reshape(UnpackFloats(payload, h.SizeZ * h.SizeX), h.SizeZ, h.SizeX)]

\* a variant of the loop that skips a slice whose payload is short and goes
\* on, leaving the row at its fill value; the truncated-record property tells
\* it from the code
RECURSIVE FillLoopSkipsShort(_, _, _, _)
FillLoopSkipsShort(bytes, h, vol, i) ==
    IF i >= h.NumBscans THEN LoopResult(TRUE, "", vol)
    ELSE IF BscanOffset(h, i) < 0 THEN LoopResult(FALSE, "OSError", vol)
    ELSE IF h.BsBlkSize < -1 THEN LoopResult(FALSE, "ValueError", vol)
    ELSE IF Len(BscanPayload(h, FileRead(bytes, BscanOffset(h, i), h.BsBlkSize)))
              # 4 * h.SizeZ * h.SizeX
    THEN FillLoopSkipsShort(bytes, h, vol, i + 1)
    ELSE FillLoopSkipsShort(bytes, h,
            StoreSlice(h, vol, i,
                BscanPayload(h, FileRead(bytes, BscanOffset(h, i), h.BsBlkSize))),
            i + 1)

\* lines 44-49: the loop from slice i on; the first failing slice raises
RECURSIVE FillLoop(_, _, _, _)
FillLoop(bytes, h, vol, i) ==
    IF i >= h.NumBscans THEN LoopResult(TRUE, "", vol)
    ELSE IF BscanOffset(h, i) < 0 THEN LoopResult(FALSE, "OSError", vol)
    ELSE IF h.BsBlkSize < -1 THEN LoopResult(FALSE, "ValueError", vol)
    ELSE IF Len(BscanPayload(h, FileRead(bytes, BscanOffset(h, i), h.BsBlkSize)))
              # 4 * h.SizeZ * h.SizeX
    THEN LoopResult(FALSE, "struct.error", vol)
    ELSE FillLoop(bytes, h,
            StoreSlice(h, vol, i,
                BscanPayload(h, FileRead(bytes, BscanOffset(h, i), h.BsBlkSize))),
            i + 1)

\* line 53: v >= 3.40e+38
IsSentinel(v) == v.cls \in {"big", "pinf"}

\* line 53: BscanVol[BscanVol >= 3.40e+38] = 0.0
CleanPixel(v) == IF IsSentinel(v) THEN Fin(0) ELSE v

Cleanup(vol) ==
    [i \in DOMAIN vol |->
        [r \in DOMAIN vol[i] |->
            [c \in DOMAIN vol[i][r] |-> CleanPixel(vol[i][r][c])]]]

\* lines 57-58
Normalize(vol, min_val, max_val) ==
    IF FLess(min_val, max_val)
    THEN [i \in DOMAIN vol |->
            [r \in DOMAIN vol[i] |->
                [c \in DOMAIN vol[i][r] |->
                    FDiv(FSub(vol[i][r][c], min_val), FSub(max_val, min_val))]]]
    ELSE vol

\* what read_vol_file leaves behind when it raises
Raised(exc, opened, closed, h) ==
    [ok |-> FALSE, exc |-> exc, opened |-> opened, closed |-> closed, hdr |-> h,
     raw |-> <<>>, cleaned |-> <<>>, min_val |-> NaN, max_val |-> NaN,
     vol |-> <<>>]

\* lines 57-60: the value read_vol_file returns
Returned(h, raw, cleaned, min_val, max_val) ==
    [ok |-> TRUE, exc |-> "", opened |-> TRUE, closed |-> TRUE, hdr |-> h,
     raw |-> raw, cleaned |-> cleaned, min_val |-> min_val, max_val |-> max_val,
     vol |-> Normalize(cleaned, min_val, max_val)]

\* a variant of lines 55-56 that takes the minimum and maximum of the volume
\* as it was assembled; the sentinel property tells it from the code
StatisticsOfRaw(h, raw, cleaned) ==
    IF Elements(cleaned) = {} THEN Raised("ValueError", TRUE, TRUE, h)
    ELSE Returned(h, raw, cleaned, np_min(raw), np_max(raw))

\* lines 55-60: np.min raises on an array without elements
Statistics(h, raw, cleaned) ==
    IF Elements(cleaned) = {} THEN Raised("ValueError", TRUE, TRUE, h)
    ELSE Returned(h, raw, cleaned, np_min(cleaned), np_max(cleaned))

\* lines 53-60, after rawfile.close()
Postprocess(h, raw) == Statistics(h, raw, Cleanup(raw))

\* lines 44-60
AfterLoop(h, loop) ==
    IF ~loop.ok THEN Raised(loop.exc, TRUE, FALSE, h)
    ELSE Postprocess(h, loop.vol)

\* line 41: NumSeg, from bytes 48..51 of Bscan[:BscanHdrSize]
NumSegBytes(h, Bscan) == PySlice(PySlice(Bscan, 0, h.BscanHdrSize), 48, 52)

\* lines 37-60
ReadBody(bytes, h) ==
    IF BscanOffset(h, 0) < 0 THEN Raised("OSError", TRUE, FALSE, h)
    ELSE IF h.BsBlkSize < -1 THEN Raised("ValueError", TRUE, FALSE, h)
    ELSE IF Len(NumSegBytes(h, FileRead(bytes, BscanOffset(h, 0), h.BsBlkSize))) # 4
    THEN Raised("struct.error", TRUE, FALSE, h)
    ELSE IF h.NumBscans < 0 \/ h.SizeZ < 0 \/ h.SizeX < 0
    THEN Raised("ValueError", TRUE, FALSE, h)
    ELSE AfterLoop(h, FillLoop(bytes, h,
                        FilledVolume(h.NumBscans, h.SizeZ, h.SizeX), 0))

\* lines 23-60, for a file of these bytes; open raises when the file system
\* refuses the file
read_vol_file(openable, bytes) ==
    IF ~openable THEN Raised("OSError", FALSE, FALSE, NoHeader)
    ELSE IF \E off \in {12, 16, 20, 48, 52, 100} : Len(HeaderField(bytes, off)) # 4
    THEN Raised("struct.error", TRUE, FALSE, NoHeader)
    ELSE ReadBody(bytes, ParseHeader(bytes))

(***************************************************************************)
(* Input files.  A .vol file is laid out from a description g:             *)
(*   SizeX, NumBscans, SizeZ, SizeXSlo, SizeYSlo, BscanHdrSize             *)
(*            the six header fields, as written at offsets 12..100         *)
(*   hdrlen   how many of the 2048 header bytes the file holds             *)
(*   pattern  the pixel values of the slices                               *)
(*   pad      bytes that follow the last slice record                      *)
(*   cut      what is missing at the end of the file: "none", "byte" (the  *)
(*            last byte), "record" (the last slice record), "payload" (the *)
(*            file ends one byte short of 2048), "fields" (the file ends   *)
(*            inside the header fields, at byte 50)                        *)
(***************************************************************************)
\* struct.pack('i', v)
PackInt(v) ==
    <<v % 256, (v \div 256) % 256, (v \div 65536) % 256, (v \div 16777216) % 256>>

\* the binary32 bytes of sign, exponent field and mantissa
FloatBytes(sign, expo, mant) ==
    <<mant % 256, (mant \div 256) % 256, (expo % 2) * 128 + mant \div 65536,
      sign * 128 + expo \div 2>>

\* the binary32 bytes of the integer whose magnitude n >= 1 has floor(log2) e
IntFloatBytes(sign, n, e) == FloatBytes(sign, 127 + e, (n - Pow2(e)) * Pow2(23 - e))

\* struct.pack('f', v) for the special values and the small integers
PackFloat(v) ==
    CASE v.cls = "big" -> <<255, 255, 127, 127>>
      [] v.cls = "pinf" -> <<0, 0, 128, 127>>
      [] v.cls = "ninf" -> <<0, 0, 128, 255>>
      [] v.cls = "nan" -> <<0, 0, 192, 127>>
      [] v.cls = "fin" /\ v.num = 0 -> <<0, 0, 0, 0>>
      [] OTHER -> IntFloatBytes(IF v.num < 0 THEN 1 ELSE 0, Abs(v.num), Log2(Abs(v.num)))

Patterns ==
    [asc      |-> <<>>,
     constneg |-> <<Fin(-2)>>,
     zero     |-> <<Fin(0)>>,
     sentinel |-> <<Big, Fin(1), Fin(3)>>,
     negbig   |-> <<Fin(-3), Big, Fin(1)>>,
     pinf     |-> <<PInf, Fin(2), Fin(-1)>>,
     ninf     |-> <<NInf, Fin(0), Fin(1)>>,
     nan      |-> <<NaN, Fin(1), Fin(2)>>]

\* pixel k (from 0, in file order) of a pattern; "asc" numbers the pixels
Pixel(pattern, k) ==
    IF pattern = "asc" THEN Fin(k)
    ELSE Patterns[pattern][(k % Len(Patterns[pattern])) + 1]

Zeros(n) == [k \in 1..n |-> 0]

\* the 2048 header bytes: the six fields at their offsets, zero elsewhere
HeaderBytes(g) ==
    Zeros(12) \o PackInt(g.SizeX) \o PackInt(g.NumBscans) \o PackInt(g.SizeZ)
      \o Zeros(24) \o PackInt(g.SizeXSlo) \o PackInt(g.SizeYSlo)
      \o Zeros(44) \o PackInt(g.BscanHdrSize) \o Zeros(1944)

\* byte w of a slice record that starts with pixel first: hlen header bytes,
\* then the floats
RecordByteAt(g, hlen, first, w) ==
    IF w < hlen THEN 7
    ELSE PackFloat(Pixel(g.pattern, first + (w - hlen) \div 4))[((w - hlen) % 4) + 1]

\* byte j (from 0) of the slice records of hlen header bytes and cnt floats
RecordByte(g, hlen, cnt, j) ==
    RecordByteAt(g, hlen, (j \div (hlen + 4 * cnt)) * cnt, j % (hlen + 4 * cnt))

\* the bytes all of the file, cut
CutFile(g, all, rlen) ==
    SubSeq(all, 1,
        CASE g.cut = "byte" -> Len(all) - 1
          [] g.cut = "record" -> Len(all) - rlen
          [] g.cut = "payload" -> Min2(Len(all), 2047)
          [] g.cut = "fields" -> Min2(Len(all), 50)
          [] OTHER -> Len(all))

Layout(g, hlen, cnt, slo) ==
    CutFile(g,
        SubSeq(HeaderBytes(g), 1, g.hdrlen)
          \o Zeros(slo)
          \o [k \in 1..(Max2(g.NumBscans, 0) * (hlen + 4 * cnt)) |->
                RecordByte(g, hlen, cnt, k - 1)]
          \o Zeros(g.pad),
        hlen + 4 * cnt)

VolBytes(g) ==
    Layout(g, Max2(g.BscanHdrSize, 0), Max2(g.SizeX, 0) * Max2(g.SizeZ, 0),
           Max2(g.SizeXSlo * g.SizeYSlo, 0))

(***************************************************************************)
(* log_volume and the arrays handed to it.  An array is a record           *)
(* [dtype, ndim, data]; a 4-D array holds a sequence of channels per pixel *)
(***************************************************************************)
\* the integer fourth root of n, or -1 when n is no fourth power
IRoot4(n) ==
    IF \E k \in 0..Min2(n, 215) : k * k * k * k = n
    THEN CHOOSE k \in 0..Min2(n, 215) : k * k * k * k = n
    ELSE -1

\* np.sqrt(np.sqrt(v)) of one pixel: NaN for a negative one
Root4(v) ==
    CASE v.cls \in {"nan", "ninf"} -> NaN
      [] v.cls = "pinf" -> PInf
      [] v.cls = "fin" /\ v.num < 0 -> NaN
      [] v.cls = "fin" /\ IRoot4(v.num) >= 0 /\ IRoot4(v.den) >= 0 ->
            Rat(IRoot4(v.num), IRoot4(v.den))
      [] v.cls = "fin" -> [cls |-> "root4", num |-> v.num, den |-> v.den]
      [] OTHER -> Other

\* lines 62-78 (the same function in the three scripts)
log_volume(volume) ==
    LET d == volume.data
    IN  [dtype |-> volume.dtype,
         ndim |-> IF volume.ndim > 3 THEN volume.ndim - 1 ELSE volume.ndim,
         data |-> [i \in DOMAIN d |-> [r \in DOMAIN d[i] |-> [c \in DOMAIN d[i][r] |->
                    IF volume.ndim > 3 THEN Root4(d[i][r][c][1])
                    ELSE Root4(d[i][r][c])]]]]

\* bscan_vol.astype(np.float32): the dtype changes; the values are kept as
\* the exact rationals (rounding to binary32 is monotone and fixes 0 and 1)
astype_float32(volume) == [volume EXCEPT !.dtype = "float32"]

(***************************************************************************)
(* Names and paths.  A name is a sequence of characters, a path a sequence *)
(* of names                                                                *)
(***************************************************************************)
Extension(conv) ==
    CASE conv = "vol" -> <<".", "v", "o", "l">>
      [] conv = "e2e" -> <<".", "e", "2", "e">>
      [] conv = "fda" -> <<".", "f", "d", "a">>

Tiff == <<".", "t", "i", "f", "f">>

CurDir == <<".">>

ParDir == <<".", ".">>

\* str.endswith
EndsWith(name, suffix) ==
    /\ Len(name) >= Len(suffix)
    /\ SubSeq(name, Len(name) - Len(suffix) + 1, Len(name)) = suffix

\* os.path.splitext(name)[0]: the name up to its last dot, unless only dots
\* precede that dot
splitext_root(name) ==
    LET dots == {k \in 1..Len(name) : name[k] = "."}
    IN  IF dots = {} THEN name
        ELSE LET d == CHOOSE k \in dots : \A j \in dots : j <= k
             IN  IF \E k \in 1..(d - 1) : name[k] # "."
                 THEN SubSeq(name, 1, d - 1)
                 ELSE name

\* os.path.join of a path and a relative path
join(a, b) == a \o b

\* the length of the longest common prefix of two paths
RECURSIVE CommonPrefix(_, _)
CommonPrefix(a, b) ==
    IF a # <<>> /\ b # <<>> /\ Head(a) = Head(b)
    THEN 1 + CommonPrefix(Tail(a), Tail(b))
    ELSE 0

\* os.path.relpath(path, start)
relpath(path, start) ==
    LET i == CommonPrefix(path, start)
        rel == [k \in 1..(Len(start) - i) |-> ParDir] \o SubSeq(path, i + 1, Len(path))
    IN  IF rel = <<>> THEN <<CurDir>> ELSE rel

\* the directory entry a path names: "." dropped, ".." one level up
RECURSIVE Resolve(_)
Resolve(p) ==
    IF p = <<>> THEN <<>>
    ELSE LET front == Resolve(SubSeq(p, 1, Len(p) - 1))
             name == p[Len(p)]
         IN  IF name = CurDir THEN front
             ELSE IF name = ParDir
             THEN (IF front = <<>> THEN <<>> ELSE SubSeq(front, 1, Len(front) - 1))
             ELSE Append(front, name)

\* the directories os.makedirs(p, exist_ok=True) leaves existing
makedirs(p) == {SubSeq(Resolve(p), 1, k) : k \in 1..Len(Resolve(p))}

ParentDir(p) == SubSeq(Resolve(p), 1, Len(Resolve(p)) - 1)

(***************************************************************************)
(* The run: input_dir, output_dir, and the files under input_dir           *)
(***************************************************************************)
InputDir == << <<"i", "n">> >>

OutputDir == << <<"o", "u", "t">> >>

\* directories of a file, relative to input_dir
FileDirs == {<<>>, << <<"a">>, <<"b">> >>}

ScanVol == <<"s", ".", "v", "o", "l">>

DotVol == <<".", "v", "o", "l">>

ScanE2E == <<"s", ".", "e", "2", "e">>

ScanFDA == <<"s", ".", "f", "d", "a">>

Notes == <<"n", ".", "t", "x", "t">>

MaxFiles == 2

MaxSizeX == 2

MaxSizeZ == 2

MaxBscans == 2

NoGeometry ==
    [SizeX |-> 0, NumBscans |-> 0, SizeZ |-> 0, SizeXSlo |-> 0, SizeYSlo |-> 0,
     BscanHdrSize |-> 0, hdrlen |-> 0, pattern |-> "asc", pad |-> 0, cut |-> "none"]

Geometry(x, n, z, xs, ys, h, hl, pat, pad, cut) ==
    [SizeX |-> x, NumBscans |-> n, SizeZ |-> z, SizeXSlo |-> xs, SizeYSlo |-> ys,
     BscanHdrSize |-> h, hdrlen |-> hl, pattern |-> pat, pad |-> pad, cut |-> cut]

VolContent(g) == [kind |-> "vol", g |-> g, ctor_ok |-> TRUE, slices |-> <<>>]

OctContent(ctor_ok, slices) ==
    [kind |-> "oct", g |-> NoGeometry, ctor_ok |-> ctor_ok, slices |-> slices]

NoContent == [kind |-> "none", g |-> NoGeometry, ctor_ok |-> TRUE, slices |-> <<>>]

\* the .vol files of the batch runs: a well-formed one, one cut in its last
\* slice, a constant negative one, one with no slices
BatchVolFiles ==
    {VolContent(Geometry(2, 2, 1, 0, 0, 52, 2048, "asc", 0, "none")),
     VolContent(Geometry(2, 2, 1, 0, 0, 52, 2048, "asc", 0, "byte")),
     VolContent(Geometry(1, 1, 1, 0, 0, 52, 2048, "constneg", 0, "none")),
     VolContent(Geometry(1, 0, 1, 0, 0, 52, 2048, "asc", 64, "none"))}

\* what the external reader yields for an .e2e/.fda file: whether its
\* constructor succeeds, and per slice whether read_slice succeeds and the
\* array it returns
Slice(ok, ndim, data) == [ok |-> ok, ndim |-> ndim, data |-> data]

BatchOctFiles ==
    {OctContent(TRUE, <<Slice(TRUE, 2, << <<Fin(16), Fin(1)>> >>),
                        Slice(TRUE, 2, << <<Fin(0), Fin(81)>> >>)>>),
     OctContent(TRUE, <<Slice(TRUE, 3, << << <<Fin(16), Fin(2)>> >> >>)>>),
     OctContent(FALSE, <<>>),
     OctContent(TRUE, <<Slice(TRUE, 2, << <<Fin(1)>> >>), Slice(FALSE, 2, <<>>)>>),
     OctContent(TRUE, <<>>),
     OctContent(TRUE, <<Slice(TRUE, 2, << <<Fin(1)>> >>),
                        Slice(TRUE, 2, << <<Fin(1), Fin(2)>> >>)>>)}

File(dir, name, content) == [dir |-> dir, name |-> name, content |-> content]

\* the files a run of one converter may meet
Candidates(conv) ==
    {File(d, Notes, NoContent) : d \in FileDirs}
      \cup (CASE conv = "vol" ->
                    {File(d, n, c) : d \in FileDirs, n \in {ScanVol, DotVol},
                                     c \in BatchVolFiles}
              [] conv = "e2e" ->
                    {File(d, ScanE2E, c) : d \in FileDirs, c \in BatchOctFiles}
              [] conv = "fda" ->
                    {File(d, ScanFDA, c) : d \in FileDirs, c \in BatchOctFiles})

\* the trees of at most k of the candidate files, one file per name in a
\* directory
RECURSIVE TreesUpTo(_, _)
TreesUpTo(cands, k) ==
    IF k = 0 THEN {{}}
    ELSE LET T == TreesUpTo(cands, k - 1)
         IN  T \cup {t \cup {f} : <<t, f>> \in
                        {tf \in T \X cands :
                            \A g \in tf[1] : g.dir # tf[2].dir \/ g.name # tf[2].name}}

Trees(cands) == TreesUpTo(cands, MaxFiles)

\* header-record sizes: usual ones, too short for the segmentation count
\* at bytes 48..51, and negative ones that make BsBlkSize 0, -1 and -2
HdrSizes(x, z) == {60, 52, 48, 0, -4 * x * z, -4 * x * z - 1, -4 * x * z - 2}

\* the .vol files read_vol_file is examined on: every geometry within the
\* bounds of which at most one size is not positive, with every header-record
\* size, preview size, padding and cut, and every pixel pattern on
\* well-formed geometries
ReadFamily ==
    {VolContent(Geometry(d[1], d[2], d[3], sl[1], sl[2], d[4], sl[3], "asc", tl[1], tl[2])) :
        d \in {e \in (-1..MaxSizeX) \X (-1..MaxBscans) \X (-1..MaxSizeZ) \X (-50..60) :
                  /\ e[4] \in HdrSizes(e[1], e[3])
                  /\ Cardinality({k \in 1..3 : e[k] <= 0}) <= 1},
        sl \in {<<0, 0, 2048>>, <<1, 3, 2048>>, <<-1, 1944, 104>>, <<-1, 3000, 2048>>},
        tl \in {<<0, "none">>, <<64, "none">>, <<0, "byte">>, <<0, "record">>,
                <<0, "payload">>, <<0, "fields">>}}
      \cup
    {VolContent(Geometry(d[1], d[2], d[3], 1, 3, 52, 2048, pat, 0, "none")) :
        d \in {<<1, 1, 1>>, <<2, 1, 2>>, <<MaxSizeX, MaxBscans, MaxSizeZ>>},
        pat \in DOMAIN Patterns}

(***************************************************************************)
(* os.walk(input_dir)                                                      *)
(***************************************************************************)
TreeDirs(tree) ==
    {InputDir} \cup
        UNION {{join(InputDir, SubSeq(f.dir, 1, k)) : k \in 1..Len(f.dir)} : f \in tree}

Subdirs(tree, d) ==
    {e \in TreeDirs(tree) : Len(e) = Len(d) + 1 /\ SubSeq(e, 1, Len(d)) = d}

FilesIn(tree, d) == {f \in tree : join(InputDir, f.dir) = d}

\* the orders in which a directory listing may come
Orderings(S) ==
    {q \in [1..Cardinality(S) -> S] : \A i, j \in DOMAIN q : q[i] = q[j] => i = j}

(***************************************************************************)
(* One iteration of the loop body                                          *)
(***************************************************************************)
NoArray == [dtype |-> "none", ndim |-> 0, data |-> <<>>]

\* an artifact left by an earlier run, and one the writer left incomplete
OldArtifact == [dtype |-> "old", ndim |-> 0, data |-> <<>>]

PartialArtifact == [dtype |-> "partial", ndim |-> 0, data |-> <<>>]

Line(kind, text) == [kind |-> kind, text |-> text]

NoRead == Raised("", FALSE, FALSE, NoHeader)

NoLast ==
    [path |-> <<>>, stage |-> "none", read |-> NoRead, passed |-> NoArray,
     tiff_filepath |-> <<>>, parent_exists |-> FALSE,
     changed |-> {}, created |-> {}]

\* the file written at path
Written(arts, path, array) ==
    [q \in (DOMAIN arts) \cup {Resolve(path)} |->
        IF q = Resolve(path) THEN array ELSE arts[q]]

\* io.imsave / tiff.imwrite: raises when the parent directory is missing or
\* the writer fails (save = "fail", or "partial" when it fails after creating
\* the file)
WriterOk(dirs, path, save) == ParentDir(path) \in dirs /\ save = "ok"

AfterWrite(dirs, arts, path, array, save) ==
    IF ParentDir(path) \notin dirs \/ save = "fail" THEN arts
    ELSE IF save = "partial" THEN Written(arts, path, PartialArtifact)
    ELSE Written(arts, path, array)

\* convert_vol_to_tiff.py lines 97-102
vol_output_subdir(rt) == join(OutputDir, relpath(rt, InputDir))

\* a variant of line 102 that writes every artifact into output_dir itself;
\* the mirroring property tells it from the code
FlatTiffPath(rt, name) == join(OutputDir, <<splitext_root(name) \o Tiff>>)

vol_tiff_filepath(rt, name) ==
    join(vol_output_subdir(rt), <<splitext_root(name) \o Tiff>>)

\* convert_e2e_to_tiff.py / convert_fda_to_tiff.py lines 56-66
oct_folder(rt, name) ==
    join(join(OutputDir, relpath(rt, InputDir)), <<splitext_root(name)>>)

oct_tiff_filepath(rt, name) ==
    join(oct_folder(rt, name), <<splitext_root(name) \o Tiff>>)

\* what one iteration leaves: whether an exception left the loop, whether a
\* file object was left open, the output tree, the lines printed
Outcome(aborted, leak, dirs, arts, printed, lst) ==
    [aborted |-> aborted, leak |-> leak, out_dirs |-> dirs, artifacts |-> arts,
     printed |-> printed, last |-> lst]

Iteration(path, stage, r, passed, tiff_filepath, parent_exists) ==
    [path |-> path, stage |-> stage, read |-> r, passed |-> passed,
     tiff_filepath |-> tiff_filepath, parent_exists |-> parent_exists,
     changed |-> {}, created |-> {}]

\* lines 110-112: the except clause, entered before the writer was called
VolFailed(rt, f, dirs, arts, r, stage) ==
    Outcome(FALSE, r.opened /\ ~r.closed, dirs, arts,
            <<Line("Converting", <<f.name>>), Line("Error", join(rt, <<f.name>>))>>,
            Iteration(join(rt, <<f.name>>), stage, r, NoArray, <<>>, FALSE))

\* lines 104-112: the contrast transform and the writer
VolSave(rt, f, dirs, arts, save, r, tiff_filepath, volume_data) ==
    Outcome(FALSE, r.opened /\ ~r.closed, dirs,
            AfterWrite(dirs, arts, tiff_filepath, log_volume(volume_data), save),
            <<Line("Converting", <<f.name>>),
              IF WriterOk(dirs, tiff_filepath, save) THEN Line("Saved", tiff_filepath)
              ELSE Line("Error", join(rt, <<f.name>>))>>,
            Iteration(join(rt, <<f.name>>),
                      IF WriterOk(dirs, tiff_filepath, save) THEN "saved"
                      ELSE "save_failed",
                      r, volume_data, tiff_filepath, ParentDir(tiff_filepath) \in dirs))

\* a variant of the loop body that creates the mirrored directory before it
\* looks at what read_vol_file did; the frame property tells it from the code
VolAfterReadEager(rt, f, dirs, arts, mk_ok, save, r) ==
    IF ~r.ok
    THEN VolFailed(rt, f, dirs \cup makedirs(vol_output_subdir(rt)), arts, r,
                   "read_failed")
    ELSE IF ~mk_ok THEN VolFailed(rt, f, dirs, arts, r, "makedirs_failed")
    ELSE VolSave(rt, f, dirs \cup makedirs(vol_output_subdir(rt)), arts, save, r,
                 vol_tiff_filepath(rt, f.name),
                 astype_float32([dtype |-> "float64", ndim |-> 3, data |-> r.vol]))

\* lines 97-112, once read_vol_file has returned r
VolAfterRead(rt, f, dirs, arts, mk_ok, save, r) ==
    IF ~r.ok THEN VolFailed(rt, f, dirs, arts, r, "read_failed")
    ELSE IF ~mk_ok THEN VolFailed(rt, f, dirs, arts, r, "makedirs_failed")
    ELSE VolSave(rt, f, dirs \cup makedirs(vol_output_subdir(rt)), arts, save, r,
                 vol_tiff_filepath(rt, f.name),
                 astype_float32([dtype |-> "float64", ndim |-> 3, data |-> r.vol]))

\* np.stack(volume, axis=0) raises on an empty list and on unequal shapes
SliceShape(sl) ==
    <<sl.ndim, Len(sl.data), IF sl.data = <<>> THEN 0 ELSE Len(sl.data[1])>>

StackOk(slices) ==
    /\ slices # <<>>
    /\ \A i, j \in DOMAIN slices : SliceShape(slices[i]) = SliceShape(slices[j])

\* lines 71-73: the except clause, entered before the writer was called
OctFailed(rt, f, dirs, arts, stage) ==
    Outcome(FALSE, FALSE, dirs, arts, <<Line("Error", join(rt, <<f.name>>))>>,
            Iteration(join(rt, <<f.name>>), stage, NoRead, NoArray, <<>>, FALSE))

\* line 44: the exception of the reader's constructor leaves the function
OctAborted(rt, f, dirs, arts) ==
    Outcome(TRUE, FALSE, dirs, arts, <<Line("Traceback", join(rt, <<f.name>>))>>,
            Iteration(join(rt, <<f.name>>), "ctor_failed", NoRead, NoArray, <<>>, FALSE))

\* lines 64-73: the contrast transform and the writer
OctSave(rt, f, dirs, arts, save, tiff_filepath, volume) ==
    Outcome(FALSE, FALSE, dirs,
            AfterWrite(dirs, arts, tiff_filepath, log_volume(volume), save),
            IF WriterOk(dirs, tiff_filepath, save)
            THEN <<Line("Saving", tiff_filepath)>>
            ELSE <<Line("Saving", tiff_filepath), Line("Error", join(rt, <<f.name>>))>>,
            Iteration(join(rt, <<f.name>>),
                      IF WriterOk(dirs, tiff_filepath, save) THEN "saved"
                      ELSE "save_failed",
                      NoRead, volume, tiff_filepath, ParentDir(tiff_filepath) \in dirs))

\* lines 54-64: np.stack(volume, axis=0) and astype(np.float32)
Stacked(slices) ==
    astype_float32([dtype |-> "uint8", ndim |-> slices[1].ndim + 1,
                    data |-> [i \in DOMAIN slices |-> slices[i].data]])

\* convert_e2e_to_tiff.py / convert_fda_to_tiff.py lines 43-73: the body of
\* the loop for a file with the converter's extension.  The reader is
\* constructed before the try block is entered
process_one_oct(rt, f, dirs, arts, mk_ok, save) ==
    IF ~f.content.ctor_ok THEN OctAborted(rt, f, dirs, arts)
    ELSE IF \E i \in DOMAIN f.content.slices : ~f.content.slices[i].ok
    THEN OctFailed(rt, f, dirs, arts, "read_failed")
    ELSE IF ~StackOk(f.content.slices) THEN OctFailed(rt, f, dirs, arts, "stack_failed")
    ELSE IF ~mk_ok THEN OctFailed(rt, f, dirs, arts, "makedirs_failed")
    ELSE OctSave(rt, f,
                 dirs \cup makedirs(join(OutputDir, relpath(rt, InputDir)))
                      \cup makedirs(oct_folder(rt, f.name)),
                 arts, save, oct_tiff_filepath(rt, f.name), Stacked(f.content.slices))

(***************************************************************************)
(* The state machine                                                       *)
(***************************************************************************)
\* the output tree an earlier, fully successful run of the converter left
PriorPaths(conv, tree) ==
    {Resolve(IF conv = "vol" THEN vol_tiff_filepath(join(InputDir, f.dir), f.name)
             ELSE oct_tiff_filepath(join(InputDir, f.dir), f.name)) :
        f \in {g \in tree : EndsWith(g.name, Extension(conv))}}

InitOutput(conv, tree, prior) ==
    /\ artifacts = [q \in (IF prior THEN PriorPaths(conv, tree) ELSE {}) |-> OldArtifact]
    /\ out_dirs = (IF prior
                   THEN UNION {makedirs(ParentDir(q)) : q \in PriorPaths(conv, tree)}
                   ELSE {})

InitRun ==
    /\ pc = "walk"
    /\ walk_stack = <<InputDir>>
    /\ root = InputDir
    /\ files = {}
    /\ open_handles = {}
    /\ console = <<>>
    /\ decode_calls = <<>>
    /\ last = NoLast

Init ==
    /\ converter \in {"vol", "e2e", "fda"}
    /\ input_tree \in Trees(Candidates(converter))
    /\ prior_run \in BOOLEAN
    /\ InitOutput(converter, input_tree, prior_run)
    /\ InitRun

\* os.walk yields the next directory: its files, and its subdirectories
\* pushed for the walk to descend into
NextDir ==
    /\ pc = "walk"
    /\ files = {}
    /\ walk_stack # <<>>
    /\ \E order \in Orderings(Subdirs(input_tree, Head(walk_stack))) :
          walk_stack' = order \o Tail(walk_stack)
    /\ root' = Head(walk_stack)
    /\ files' = FilesIn(input_tree, Head(walk_stack))
    /\ UNCHANGED <<converter, input_tree, prior_run, pc, open_handles, out_dirs,
                   artifacts, console, decode_calls, last>>

\* a file without the converter's extension
SkipFile ==
    /\ pc = "walk"
    /\ \E f \in files :
          /\ ~EndsWith(f.name, Extension(converter))
          /\ files' = files \ {f}
    /\ UNCHANGED <<converter, input_tree, prior_run, walk_stack, root, pc,
                   open_handles, out_dirs, artifacts, console, decode_calls, last>>

\* the artifacts an iteration created or rewrote
ChangedArtifacts(before, after) ==
    {q \in DOMAIN after : q \notin DOMAIN before \/ after[q] # before[q]}
        \cup ((DOMAIN before) \ (DOMAIN after))

\* the loop body has run for f and left o; last records what it did to the
\* output tree
Apply(f, o) ==
    /\ files' = files \ {f}
    /\ pc' = IF o.aborted THEN "aborted" ELSE pc
    /\ open_handles' = IF o.leak THEN open_handles \cup {o.last.path} ELSE open_handles
    /\ out_dirs' = o.out_dirs
    /\ artifacts' = o.artifacts
    /\ console' = console \o o.printed
    /\ decode_calls' = Append(decode_calls, o.last.path)
    /\ last' = [o.last EXCEPT !.changed = ChangedArtifacts(artifacts, o.artifacts),
                               !.created = o.out_dirs \ out_dirs]
    /\ UNCHANGED <<converter, input_tree, prior_run, walk_stack, root>>

\* convert_vol_to_tiff.py lines 90-112: the body of the loop for a file that
\* ends in '.vol'.  openable, mk_ok and save are what the file system and the
\* writer do
ConvertVol ==
    /\ pc = "walk"
    /\ converter = "vol"
    /\ \E f \in files, openable \in BOOLEAN :
          /\ EndsWith(f.name, Extension("vol"))
          /\ LET r == read_vol_file(openable, VolBytes(f.content.g))
             IN  \E mk_ok \in BOOLEAN, save \in {"ok", "fail", "partial"} :
                    Apply(f, VolAfterRead(root, f, out_dirs, artifacts, mk_ok, save, r))

ConvertOct ==
    /\ pc = "walk"
    /\ converter \in {"e2e", "fda"}
    /\ \E f \in files, mk_ok \in BOOLEAN, save \in {"ok", "fail", "partial"} :
          /\ EndsWith(f.name, Extension(converter))
          /\ Apply(f, process_one_oct(root, f, out_dirs, artifacts, mk_ok, save))

\* the walk is exhausted: the function returns
Finish ==
    /\ pc = "walk"
    /\ files = {}
    /\ walk_stack = <<>>
    /\ pc' = "done"
    /\ UNCHANGED <<converter, input_tree, prior_run, walk_stack, root, files,
                   open_handles, out_dirs, artifacts, console, decode_calls, last>>

\* the interpreter finalizes a file object that was left open: when, if ever,
\* is up to its garbage collector
Finalize ==
    /\ \E h \in open_handles : open_handles' = open_handles \ {h}
    /\ UNCHANGED <<converter, input_tree, prior_run, walk_stack, root, files, pc,
                   out_dirs, artifacts, console, decode_calls, last>>

Next == NextDir \/ SkipFile \/ ConvertVol \/ ConvertOct \/ Finish \/ Finalize

Spec == Init /\ [][Next]_vars

\* process_vol_files on a directory that holds one file
InitRead ==
    /\ converter = "vol"
    /\ input_tree \in {{File(<<>>, ScanVol, c)} : c \in ReadFamily}
                        \cup {{File(<<>>, Notes, NoContent)}}
    /\ prior_run = FALSE
    /\ InitOutput(converter, input_tree, prior_run)
    /\ InitRun

NextRead == NextDir \/ SkipFile \/ ConvertVol \/ Finish \/ Finalize

SpecRead == InitRead /\ [][NextRead]_vars

(***************************************************************************)
(* Properties                                                              *)
(***************************************************************************)
\* the files of the input tree the last iteration of the loop was run for
LastFiles ==
    {f \in input_tree : join(join(InputDir, f.dir), <<f.name>>) = last.path}

\* the last iteration opened a .vol file and ran read_vol_file on its bytes
VolDecoded ==
    converter = "vol" /\ last.stage # "none" /\ last.read.opened

\* bscanBlockSize, as the header of the file described by g gives it
BlockSize(g) == g.BscanHdrSize + g.SizeX * g.SizeZ * 4

\* the bytes a file of length len holds from offset off on
Available(len, off) == IF off < 0 THEN 0 ELSE Max2(len - off, 0)

\* the offset of slice record i, as the header of the file described by g
\* gives it
RecordOffset(g, i) == 2048 + g.SizeXSlo * g.SizeYSlo + i * BlockSize(g)

\* the iteration ended in the except clause before anything was written
Rejected ==
    /\ ~last.read.ok
    /\ last.read.vol = <<>>
    /\ last.stage = "read_failed"
    /\ last.changed = {}

MalformedHeader(g) ==
    \/ Len(VolBytes(g)) < 2048
    \/ g.SizeX <= 0
    \/ g.SizeZ <= 0
    \/ g.NumBscans <= 0
    \/ BlockSize(g) <= 0

\* C2: a .vol file that is shorter than 2048 bytes, or whose header gives a
\* sizeX, sizeZ, numBscans or bscanBlockSize that is not positive, makes
\* read_vol_file raise, and process_vol_files writes no artifact for it
C2_MalformedHeaderRejected ==
    VolDecoded =>
        \A f \in LastFiles : MalformedHeader(f.content.g) => Rejected

PositiveGeometry(g) ==
    /\ Len(VolBytes(g)) >= 2048
    /\ g.SizeX > 0
    /\ g.SizeZ > 0
    /\ g.NumBscans > 0
    /\ BlockSize(g) > 0

TruncatedAt(g, i) ==
    Available(Len(VolBytes(g)), RecordOffset(g, i)) < BlockSize(g)

\* C3: when the header's geometry is positive and fewer than bscanBlockSize
\* bytes are available at the offset of some slice record i < numBscans,
\* read_vol_file raises, returns no volume, and process_vol_files writes no
\* artifact for the file
C3_TruncatedRecordRejected ==
    VolDecoded =>
        \A f \in LastFiles :
            (/\ PositiveGeometry(f.content.g)
             /\ \E i \in 0..(f.content.g.NumBscans - 1) : TruncatedAt(f.content.g, i))
                => Rejected /\ artifacts = << >>

\* a file whose first slice record is whole and whose second is cut short was
\* decoded and rejected
C3_Witness ==
    /\ VolDecoded
    /\ Rejected
    /\ \E f \in LastFiles :
          /\ PositiveGeometry(f.content.g)
          /\ f.content.g.BscanHdrSize >= 52
          /\ f.content.g.NumBscans = 2
          /\ ~TruncatedAt(f.content.g, 0)
          /\ TruncatedAt(f.content.g, 1)

\* the float stored in the four bytes of a file from offset off on, when the
\* file holds these bytes
FloatAt(bytes, off) ==
    IF off < 0 \/ off + 4 > Len(bytes) THEN Special("absent")
    ELSE UnpackFloat(SubSeq(bytes, off + 1, off + 4))

\* the offset of pixel (z, x) of slice i: it follows the BscanHdrSize bytes of
\* the record's header, row after row
PixelOffset(g, i, z, x) ==
    RecordOffset(g, i) + g.BscanHdrSize + 4 * (z * g.SizeX + x)

\* C6: when read_vol_file has decoded a file of positive geometry, row i of
\* the assembled volume holds, reshaped row-major to [SizeZ, SizeX], the
\* floats that follow the header of the record at offset
\* 2048 + SizeXSlo*SizeYSlo + i*bscanBlockSize: every slice is at the row of
\* its file index and no element keeps the fill value
C6_SliceOrder ==
    (VolDecoded /\ last.read.ok) =>
        \A f \in LastFiles :
            (PositiveGeometry(f.content.g) /\ f.content.g.BscanHdrSize >= 0) =>
                /\ DOMAIN last.read.raw = 1..f.content.g.NumBscans
                /\ \A i \in 0..(f.content.g.NumBscans - 1) :
                      /\ DOMAIN last.read.raw[i + 1] = 1..f.content.g.SizeZ
                      /\ \A z \in 0..(f.content.g.SizeZ - 1) :
                            /\ DOMAIN last.read.raw[i + 1][z + 1] = 1..f.content.g.SizeX
                            /\ \A x \in 0..(f.content.g.SizeX - 1) :
                                  last.read.raw[i + 1][z + 1][x + 1] =
                                      FloatAt(VolBytes(f.content.g),
                                              PixelOffset(f.content.g, i, z, x))

\* a file of two slices of two rows of two pixels, which follow an SLO image,
\* was decoded: the pixels numbered 0..7 in the file are in their places
C6_Witness ==
    /\ VolDecoded
    /\ last.read.ok
    /\ \E f \in LastFiles :
          /\ f.content.g.SizeXSlo * f.content.g.SizeYSlo > 0
          /\ f.content.g.pattern = "asc"
    /\ last.read.raw = << << <<Fin(0), Fin(1)>>, <<Fin(2), Fin(3)>> >>,
                          << <<Fin(4), Fin(5)>>, <<Fin(6), Fin(7)>> >> >>

\* v >= 3.40e38 in single precision: the finite values from the threshold up,
\* and +inf
AtLeastThreshold(v) == v.cls = "big" \/ v.cls = "pinf"

\* m is the least (greatest) element of the volume
IsMinOf(m, vol) == m \in Elements(vol) /\ \A e \in Elements(vol) : FLeq(m, e)

IsMaxOf(m, vol) == m \in Elements(vol) /\ \A e \in Elements(vol) : FLeq(e, m)

\* C7: every element of the assembled volume that is >= 3.40e38 is replaced
\* by 0.0, every other element is left as it is, and the minimum and maximum
\* used for normalization are those of the volume after the replacement, so
\* neither is a sentinel
C7_SentinelCleanup ==
    (VolDecoded /\ last.read.ok) =>
        /\ DOMAIN last.read.cleaned = DOMAIN last.read.raw
        /\ \A i \in DOMAIN last.read.raw :
              /\ DOMAIN last.read.cleaned[i] = DOMAIN last.read.raw[i]
              /\ \A z \in DOMAIN last.read.raw[i] :
                    /\ DOMAIN last.read.cleaned[i][z] = DOMAIN last.read.raw[i][z]
                    /\ \A x \in DOMAIN last.read.raw[i][z] :
                          last.read.cleaned[i][z][x] =
                              IF AtLeastThreshold(last.read.raw[i][z][x]) THEN Fin(0)
                              ELSE last.read.raw[i][z][x]
        /\ ~AtLeastThreshold(last.read.min_val)
        /\ ~AtLeastThreshold(last.read.max_val)
        /\ NaN \notin Elements(last.read.cleaned) =>
              /\ IsMinOf(last.read.min_val, last.read.cleaned)
              /\ IsMaxOf(last.read.max_val, last.read.cleaned)

\* a volume that holds a sentinel next to the values 1 and 3 was decoded: the
\* maximum used is 3
C7_Witness ==
    /\ VolDecoded
    /\ last.read.ok
    /\ Big \in Elements(last.read.raw)
    /\ Fin(3) \in Elements(last.read.raw)
    /\ last.read.max_val = Fin(3)
    /\ last.read.min_val = Fin(0)

\* 0 <= v <= 1
InUnitRange(v) == v.cls = "fin" /\ 0 <= v.num /\ v.num <= v.den

\* every finite element of the volume is kept as a rational
Rational(vol) == \A e \in Elements(vol) : e.cls # "bits"

\* C8: with m and M the minimum and maximum of the cleaned volume, if M > m
\* every element of the returned volume is (v - m) / (M - m) and lies in
\* [0, 1], the minimum mapping to 0 and the maximum to 1; if M = m the
\* returned volume is the cleaned volume (examined on the volumes whose
\* finite elements are kept as rationals)
C8_Normalization ==
    (VolDecoded /\ last.read.ok /\ Rational(last.read.cleaned)) =>
        \A m, M \in Elements(last.read.cleaned) :
            (IsMinOf(m, last.read.cleaned) /\ IsMaxOf(M, last.read.cleaned)) =>
                /\ FLess(m, M) =>
                      \A i \in DOMAIN last.read.cleaned :
                      \A z \in DOMAIN last.read.cleaned[i] :
                      \A x \in DOMAIN last.read.cleaned[i][z] :
                          /\ last.read.vol[i][z][x] =
                                FDiv(FSub(last.read.cleaned[i][z][x], m), FSub(M, m))
                          /\ InUnitRange(last.read.vol[i][z][x])
                          /\ last.read.cleaned[i][z][x] = m =>
                                last.read.vol[i][z][x] = Fin(0)
                          /\ last.read.cleaned[i][z][x] = M =>
                                last.read.vol[i][z][x] = Fin(1)
                /\ m = M => last.read.vol = last.read.cleaned

\* C9: every element of the volume process_vol_files passes to log_volume
\* lies in [0, 1] (examined on the volumes whose finite elements are kept as
\* rationals)
C9_UnitRangeInput ==
    (/\ VolDecoded
     /\ last.read.ok
     /\ Rational(last.read.cleaned)
     /\ last.stage \in {"saved", "save_failed"}) =>
        \A v \in Elements(last.passed.data) : InUnitRange(v)

\* the path the walk gives for a file of the input tree
PathOf(f) == join(join(InputDir, f.dir), <<f.name>>)

Matching(f) == EndsWith(f.name, Extension(converter))

Occurrences(seq, x) == Cardinality({k \in DOMAIN seq : seq[k] = x})

\* C1: in each of the three converters the run never aborts because of one
\* file: a failed attempt is reported with the path of the file, and when the
\* run ends every matching file under input_dir has been attempted
C1_FaultIsolation ==
    /\ pc # "aborted"
    /\ last.stage \notin {"none", "saved"} =>
          \E k \in DOMAIN console : console[k] = Line("Error", last.path)
    /\ pc = "done" =>
          \A f \in input_tree :
              Matching(f) => Occurrences(decode_calls, PathOf(f)) >= 1

\* C4: no file handle opened by read_vol_file is open once the iteration for
\* its file is over: not when a later file is opened, not when the run ends
C4_HandlesReleased == converter = "vol" => open_handles = {}

\* a file name without its last four characters
Stripped(name) == SubSeq(name, 1, Len(name) - 4)

\* the part of a file name before its extension: a name that has nothing but
\* dots before its last dot has no extension
Stem(name) ==
    IF \A k \in 1..(Len(name) - 4) : name[k] = "." THEN name ELSE Stripped(name)

\* output_dir/<directory of f relative to input_dir>/<stem>.tiff
MirroredPath(f, stem) == OutputDir \o f.dir \o <<stem \o Tiff>>

DecodedOnce ==
    \A f \in input_tree :
        Matching(f) =>
            /\ Occurrences(decode_calls, PathOf(f)) <= 1
            /\ pc = "done" => Occurrences(decode_calls, PathOf(f)) = 1

\* the writer was called with the parent directory of its target in place
ParentInPlace ==
    last.stage \in {"saved", "save_failed"} =>
        /\ last.parent_exists
        /\ ParentDir(last.tiff_filepath) \in out_dirs

\* C5 as the specification words it: every file whose name ends in '.vol' is
\* decoded exactly once, and a successful conversion writes exactly one
\* artifact, at output_dir/<relative directory>/<name without '.vol'>.tiff,
\* into a directory that exists when the writer is called
C5_MirroredStripped ==
    converter = "vol" =>
        /\ DecodedOnce
        /\ ParentInPlace
        /\ last.stage = "saved" =>
              \A f \in LastFiles :
                  /\ Resolve(last.tiff_filepath) = MirroredPath(f, Stripped(f.name))
                  /\ last.changed = {MirroredPath(f, Stripped(f.name))}
                  /\ artifacts[MirroredPath(f, Stripped(f.name))] # OldArtifact

\* C5, amended: every file whose name ends in '.vol' is decoded exactly once,
\* and a successful conversion writes exactly one artifact, at
\* output_dir/<relative directory>/<stem>.tiff, into a directory that exists
\* when the writer is called; the stem is the name without '.vol', except
\* that a name with nothing but dots before '.vol' is kept whole
C5_MirroredStem ==
    converter = "vol" =>
        /\ DecodedOnce
        /\ ParentInPlace
        /\ last.stage = "saved" =>
              \A f \in LastFiles :
                  /\ Resolve(last.tiff_filepath) = MirroredPath(f, Stem(f.name))
                  /\ last.changed = {MirroredPath(f, Stem(f.name))}
                  /\ artifacts[MirroredPath(f, Stem(f.name))] # OldArtifact

\* the run is over: a file two directories down was converted, and the file
\* named '.vol' next to it was converted last
C5_Witness ==
    /\ converter = "vol"
    /\ pc = "done"
    /\ Len(decode_calls) = 2
    /\ last.stage = "saved"
    /\ \E f \in LastFiles : f.name = DotVol /\ f.dir = << <<"a">>, <<"b">> >>
    /\ OutputDir \o << <<"a">>, <<"b">>, ScanVol \o Tiff >> \notin DOMAIN artifacts
    /\ OutputDir \o << <<"a">>, <<"b">>, <<"s">> \o Tiff >> \in DOMAIN artifacts

\* C10: when read_vol_file fails for a file, the iteration creates no
\* directory and writes or rewrites no artifact; an artifact an earlier run
\* left at the mirrored path stays as it was
C10_FrameOnDecodeFailure ==
    (converter = "vol" /\ last.stage = "read_failed") =>
        /\ last.created = {}
        /\ last.changed = {}
        /\ \A f \in LastFiles :
              prior_run => artifacts[MirroredPath(f, Stem(f.name))] = OldArtifact

\* a file that was opened and could not be decoded, in a tree an earlier run
\* had converted: its old artifact is where it was
C10_Witness ==
    /\ converter = "vol"
    /\ prior_run
    /\ last.stage = "read_failed"
    /\ last.read.opened
    /\ last.read.exc = "struct.error"
    /\ \E f \in LastFiles :
          /\ f.dir = << <<"a">>, <<"b">> >>
          /\ artifacts[MirroredPath(f, Stem(f.name))] = OldArtifact

=============================================================================
